---- MODULE Spec2Model ----
(***************************************************************************)
(* Model of the Aptos hardware-wallet client (src/src/Aptos.ts): the three *)
(* public operations getVersion, getAddress and signTransaction, the       *)
(* chunking sendToDevice, the path encoder and the response parsing.       *)
(*                                                                         *)
(* Buffers are sequences of bytes (0..255).  JavaScript offsets are        *)
(* 0-based; subarray below converts to the 1-based sequences of TLA+.      *)
(* An unsigned 32-bit number is a record [hi, lo]: hi is bit 31 and lo the *)
(* low 31 bits, so that the value is hi * 2^31 + lo.                       *)
(***************************************************************************)
EXTENDS Integers, Sequences, FiniteSets, TLC

\* ---------------------------------------------------------------- constants

MAX_APDU_LEN == 255
P1_NON_CONFIRM == 0
P1_CONFIRM == 1
P1_START == 0
P2_MORE == 128
P2_LAST == 0
LEDGER_CLA == 91
INS_GET_VERSION == 3
INS_GET_PUBLIC_KEY == 5
INS_SIGN_TX == 6
\* StatusCodes.OK of @ledgerhq/errors, 0x9000
StatusCodes_OK == 36864

\* ---------------------------------------------------------------- bounds

\* number of operations the callers invoke in one behaviour
MaxOps == 2
\* longest list of indices enumerated element by element for the path encoder
MaxEnumPath == 3

\* ---------------------------------------------------------------- buffers

\* Index normalisation of Buffer.subarray: a negative index counts from the
\* end, and every index is clamped to [0, len].
ClampIndex(i, len) ==
    IF i < 0 THEN (IF len + i < 0 THEN 0 ELSE len + i)
    ELSE IF i > len THEN len ELSE i

\* buf.subarray(start, end): bytes start .. end-1 (0-based), never out of
\* range, empty when end <= start.
subarray(buf, start, end) ==
    LET s == ClampIndex(start, Len(buf))
        e == ClampIndex(end, Len(buf))
    IN  IF e <= s THEN << >> ELSE SubSeq(buf, s + 1, e)

\* buf.subarray(start)
subarrayFrom(buf, start) == subarray(buf, start, Len(buf))

\* reply.readUInt16BE(offset)
readUInt16BE(buf, offset) == buf[offset + 1] * 256 + buf[offset + 2]

\* ---------------------------------------------------------------- paths

\* Bit 31 of an index, which the path parser sets for a hardened component.
HARDENED_BIT == 1

U32(hi, lo) == [hi |-> hi, lo |-> lo]

\* The four bytes of num least significant first, as writeUInt32LE writes.
writeUInt32BE_LE(num) ==
    << num.lo % 256,
       (num.lo \div 256) % 256,
       (num.lo \div 65536) % 256,
       num.hi * 128 + (num.lo \div 16777216) >>

\* buf.writeUInt32BE(num, ...): the four bytes of num, most significant first
writeUInt32BE(num) ==
    << num.hi * 128 + (num.lo \div 16777216),
       (num.lo \div 65536) % 256,
       (num.lo \div 256) % 256,
       num.lo % 256 >>

\* serializePath: [ok, buf].  writeUInt8 throws a RangeError when the
\* length does not fit in one byte.  Byte 0 is the length, and the index at
\* position i (0-based) is written at offset 1 + i * 4.
serializePath(path) ==
    IF Len(path) > 255
    THEN [ok |-> FALSE, buf |-> << >>]
    ELSE [ok |-> TRUE,
          buf |-> [k \in 1..(1 + Len(path) * 4) |->
                     IF k = 1 THEN Len(path)
                     ELSE writeUInt32BE(path[((k - 2) \div 4) + 1])[((k - 2) % 4) + 1]]]

\* A component of the path string, as split("/") yields it: the root "m",
\* or decimal digits (n) followed by a suffix: none, "'" or "h".
RootComponent == [kind |-> "m", n |-> U32(0, 0), sfx |-> ""]
IndexComponent(n, sfx) == [kind |-> "idx", n |-> n, sfx |-> sfx]

IsNotRoot(value) == value.kind # "m"

\* The map of pathToBuffer left out: a plain component stays plain.
PromoteKeepPlain(value) == value

\* .map(value => value.endsWith("'") || value.endsWith("h") ? value : value + "'")
Promote(value) ==
    IF value.sfx = "'" \/ value.sfx = "h" THEN value
    ELSE [value EXCEPT !.sfx = "'"]

\* BIPPath.fromString(path).toPathArray() of bip32-path: a text without
\* digits and an index of 2^31 or more are rejected; a hardened suffix adds
\* 2^31 to the index.
BIPPath_fromString(components) ==
    IF components = << >> \/ \E i \in 1..Len(components) : components[i].n.hi = 1
    THEN [ok |-> FALSE, nums |-> << >>]
    ELSE [ok |-> TRUE,
          nums |-> [i \in 1..Len(components) |->
                      IF components[i].sfx \in {"'", "h", "H"}
                      THEN U32(HARDENED_BIT, components[i].n.lo)
                      ELSE components[i].n]]

\* pathToBuffer: [ok, buf]; ok is FALSE when the path parser or the encoder
\* throws.
pathToBuffer(originalPath) ==
    LET kept == SelectSeq(originalPath, IsNotRoot)
        path == [i \in 1..Len(kept) |-> Promote(kept[i])]
        parsed == BIPPath_fromString(path)
    IN  IF parsed.ok THEN serializePath(parsed.nums)
        ELSE [ok |-> FALSE, buf |-> << >>]

\* ---------------------------------------------------------------- text

Digit(d) ==
    CASE d = 0 -> "0" [] d = 1 -> "1" [] d = 2 -> "2" [] d = 3 -> "3"
      [] d = 4 -> "4" [] d = 5 -> "5" [] d = 6 -> "6" [] d = 7 -> "7"
      [] d = 8 -> "8" [] d = 9 -> "9"

\* Number to decimal text, a sequence of one-character strings.
RECURSIVE Decimal(_)
Decimal(n) == IF n < 10 THEN <<Digit(n)>> ELSE Decimal(n \div 10) \o <<Digit(n % 10)>>

\* `${x}` of a destructured array element: "undefined" when the element is
\* missing.
TemplateField(body, i) ==
    IF i < Len(body) THEN Decimal(body[i + 1])
    ELSE <<"u", "n", "d", "e", "f", "i", "n", "e", "d">>

\* ---------------------------------------------------------------- hashing

\* sha3_256 is collision free for the purposes of the model: the digest is
\* the term sha3_256(message).
sha3Hash(message) == [alg |-> "sha3_256", msg |-> message]

\* publicKeyToAddress without the second update: the key alone is hashed.
publicKeyToAddress_NoDomainByte(pubKey) == sha3Hash(pubKey)

\* publicKeyToAddress: hash.update(pubKey); hash.update("\x00")
publicKeyToAddress(pubKey) == sha3Hash(pubKey \o <<0>>)

\* ---------------------------------------------------------------- responses

\* throwOnFailure without its comparison: no status makes it throw.
throwOnFailure_Never(reply) == FALSE

\* throwOnFailure reading the status least significant byte first.
throwOnFailure_LittleEndian(reply) ==
    reply[Len(reply)] * 256 + reply[Len(reply) - 1] # StatusCodes_OK

\* throwOnFailure: TRUE when it throws, the status being the last two bytes
\* of the reply read big-endian.
throwOnFailure(reply) == readUInt16BE(reply, Len(reply) - 2) # StatusCodes_OK

\* sendToDevice returning the reply with its status bytes.
replyBody_KeepStatus(reply) == reply

\* reply.subarray(0, reply.length - 2), what sendToDevice returns
replyBody(reply) == subarray(reply, 0, Len(reply) - 2)

\* versionOf with the fields in the order of the least significant first.
versionOf_Reversed(responseBuffer) ==
    [version |-> TemplateField(responseBuffer, 2) \o <<".">> \o
                 TemplateField(responseBuffer, 1) \o <<".">> \o
                 TemplateField(responseBuffer, 0)]

\* getVersion: the version text "major.minor.patch"
versionOf(responseBuffer) ==
    [version |-> TemplateField(responseBuffer, 0) \o <<".">> \o
                 TemplateField(responseBuffer, 1) \o <<".">> \o
                 TemplateField(responseBuffer, 2)]

\* getAddress hashing the chain code along with the key.
addressDataOf_HashesChain(responseBuffer) ==
    LET lenField == subarray(responseBuffer, 0, 1)
        hasLen == lenField # << >>
        offset == 2 + lenField[1] - 1
        pubKeyBuffer ==
            IF hasLen THEN subarray(responseBuffer, 2, offset)
            ELSE subarray(responseBuffer, 2, 0)
        chainField ==
            IF hasLen THEN subarray(responseBuffer, offset, offset + 1)
            ELSE subarray(responseBuffer, 0, 0)
        chainCodeBuffer ==
            IF chainField # << >>
            THEN subarray(responseBuffer, offset + 1, offset + 1 + chainField[1])
            ELSE subarray(responseBuffer, IF hasLen THEN offset + 1 ELSE 0, 0)
    IN  [publicKey |-> pubKeyBuffer,
         chainCode |-> chainCodeBuffer,
         address |-> [prefix |-> "0x",
                      hex |-> sha3Hash(pubKeyBuffer \o chainCodeBuffer \o <<0>>)]]

\* getAddress, lines 103-122.  offset starts at 1; "++offset" makes the key
\* start at 2 and "offset += pubKeyLen" makes it end at 2 + pubKeyLen.  With
\* an empty response the length byte is undefined, pubKeyLen and offset are
\* NaN, and subarray reads NaN as 0; likewise for a missing chain-code length.
addressDataOf(responseBuffer) ==
    LET lenField == subarray(responseBuffer, 0, 1)
        hasLen == lenField # << >>
        pubKeyLen == lenField[1] - 1
        offset == 2 + pubKeyLen
        pubKeyBuffer ==
            IF hasLen THEN subarray(responseBuffer, 2, offset)
            ELSE subarray(responseBuffer, 2, 0)
        chainField ==
            IF hasLen THEN subarray(responseBuffer, offset, offset + 1)
            ELSE subarray(responseBuffer, 0, 0)
        hasChainLen == chainField # << >>
        chainCodeLen == chainField[1]
        chainCodeBuffer ==
            IF hasChainLen
            THEN subarray(responseBuffer, offset + 1, offset + 1 + chainCodeLen)
            ELSE subarray(responseBuffer, IF hasLen THEN offset + 1 ELSE 0, 0)
    IN  [publicKey |-> pubKeyBuffer,
         chainCode |-> chainCodeBuffer,
         address |-> [prefix |-> "0x", hex |-> publicKeyToAddress(pubKeyBuffer)]]

\* signTransaction, lines 149-151.  With an empty response signatureLen is
\* undefined and the end 1 + undefined is NaN, read as 0.
signatureOf(responseBuffer) ==
    LET hasLen == Len(responseBuffer) > 0
        signatureLen == responseBuffer[1]
    IN  [signature |-> IF hasLen THEN subarray(responseBuffer, 1, 1 + signatureLen)
                       ELSE subarray(responseBuffer, 1, 0)]

\* ---------------------------------------------------------------- framing

\* The state of one sendToDevice call: its arguments, payloadOffset, whether
\* the frame last handed to the transport was the one after the loop, and the
\* position among the operation's frames of the first frame of this call.
SendState(instruction, p1, p2, payload, phase) ==
    [instruction |-> instruction, p1 |-> p1, p2 |-> p2, payload |-> payload,
     payloadOffset |-> 0, final |-> FALSE, phase |-> phase, firstFrame |-> 1]

\* The status of a frame whose reply has not arrived.
NoStatus == 0 - 1

NoSend == SendState(0, 0, 0, << >>, "none")

\* The loop condition with >= for >: a remainder of exactly MAX_APDU_LEN
\* bytes is sent as a chunk of the loop.
moreChunks_AtLeast(s) ==
    Len(s.payload) - s.payloadOffset >= MAX_APDU_LEN

\* The loop condition of lines 164-165.
moreChunks(s) ==
    Len(s.payload) > MAX_APDU_LEN /\ Len(s.payload) - s.payloadOffset > MAX_APDU_LEN

\* nextFrame with a chunk that ends one byte late: the chunk overlaps the
\* next one.
nextFrame_Overlap(s) ==
    IF moreChunks(s)
    THEN [cla |-> LEDGER_CLA, ins |-> s.instruction, p1 |-> s.p1, p2 |-> P2_MORE,
          data |-> subarray(s.payload, s.payloadOffset,
                            s.payloadOffset + MAX_APDU_LEN + 1),
          status |-> NoStatus]
    ELSE [cla |-> LEDGER_CLA, ins |-> s.instruction, p1 |-> s.p1, p2 |-> s.p2,
          data |-> subarrayFrom(s.payload, s.payloadOffset),
          status |-> NoStatus]

\* The frame the next transport.send of this sendToDevice call carries:
\* lines 166-176 inside the loop, lines 182-189 after it.
nextFrame(s) ==
    IF moreChunks(s)
    THEN [cla |-> LEDGER_CLA, ins |-> s.instruction, p1 |-> s.p1, p2 |-> P2_MORE,
          data |-> subarray(s.payload, s.payloadOffset, s.payloadOffset + MAX_APDU_LEN),
          status |-> NoStatus]
    ELSE [cla |-> LEDGER_CLA, ins |-> s.instruction, p1 |-> s.p1, p2 |-> s.p2,
          data |-> subarrayFrom(s.payload, s.payloadOffset),
          status |-> NoStatus]

\* afterFrame without payloadOffset += MAX_APDU_LEN: the loop sends the same
\* chunk again and again.
afterFrame_NoAdvance(s) ==
    IF Len(s.payload) > MAX_APDU_LEN /\ Len(s.payload) - s.payloadOffset > MAX_APDU_LEN
    THEN [s EXCEPT !.p1 = @ + 1, !.final = FALSE]
    ELSE [s EXCEPT !.final = TRUE]

\* afterFrame advancing payloadOffset by one byte less than a chunk holds.
afterFrame_ShortStep(s) ==
    IF Len(s.payload) > MAX_APDU_LEN /\ Len(s.payload) - s.payloadOffset > MAX_APDU_LEN
    THEN [s EXCEPT !.payloadOffset = @ + MAX_APDU_LEN - 1, !.p1 = @ + 1, !.final = FALSE]
    ELSE [s EXCEPT !.final = TRUE]

\* The state of the call once that frame is handed over: payloadOffset +=
\* MAX_APDU_LEN and p1++ inside the loop.
afterFrame(s) ==
    IF moreChunks(s)
    THEN [s EXCEPT !.payloadOffset = @ + MAX_APDU_LEN, !.p1 = @ + 1, !.final = FALSE]
    ELSE [s EXCEPT !.final = TRUE]

\* ---------------------------------------------------------------- inputs

\* A transaction buffer of n bytes whose content differs from chunk to chunk.
TxBuffer(n) == [i \in 1..n |-> ((i - 1) * 7 + 3) % 256]

\* A path of k components, alternately plain and with the "'" suffix.
LongPath(k) ==
    [i \in 1..k |-> IndexComponent(U32(0, i), IF i % 2 = 0 THEN "" ELSE "'")]

PathShort ==
    << RootComponent, IndexComponent(U32(0, 44), "'"),
       IndexComponent(U32(0, 637), ""), IndexComponent(U32(0, 1), "h") >>
PathNoRoot == << IndexComponent(U32(0, 2147483647), "") >>
PathOnlyRoot == << RootComponent >>
PathTooBig == << RootComponent, IndexComponent(U32(1, 0), "") >>

AddressPaths ==
    { PathShort, PathNoRoot, PathOnlyRoot, PathTooBig,
      LongPath(63), LongPath(64), LongPath(255), LongPath(256) }

TxLengths == {0, 1, 254, 255, 256, 510, 511, 600}

Invocation(op, path, display, tx) ==
    [op |-> op, path |-> path, display |-> display, tx |-> tx]

NoInvocation == Invocation("none", << >>, FALSE, << >>)

\* The calls a single caller makes.
Invocations ==
    { Invocation("getVersion", << >>, FALSE, << >>) }
    \cup { Invocation("getAddress", p, d, << >>) : p \in AddressPaths, d \in BOOLEAN }
    \cup { Invocation("signTransaction", PathShort, FALSE, TxBuffer(n)) : n \in TxLengths }
    \cup { Invocation("signTransaction", p, FALSE, TxBuffer(256)) :
             p \in {PathNoRoot, PathOnlyRoot, LongPath(64)} }

\* The calls two callers sharing the client make.
SharedInvocations ==
    { Invocation("getVersion", << >>, FALSE, << >>),
      Invocation("getAddress", PathShort, TRUE, << >>),
      Invocation("signTransaction", PathShort, FALSE, TxBuffer(256)) }

\* The shortest transaction buffer whose last frame follows 255 full ones.
LongTxLength == MAX_APDU_LEN * 255 + 1

\* The calls of a caller that signs long transactions.
LongInvocations ==
    { Invocation("signTransaction", PathShort, FALSE, TxBuffer(n)) :
        n \in {LongTxLength - 1, LongTxLength} }

\* Response bodies the device may send.
Bodies ==
    { << >>,
      <<1, 2, 3>>,
      <<3, 4, 17, 18, 2, 33, 34>>,
      <<3, 17, 18, 2, 33, 34>>,
      <<5, 4, 1, 2>>,
      <<2, 4, 9, 5, 1>>,
      <<0, 7, 1, 9>>,
      <<2, 5, 6>>,
      <<3, 5>>,
      <<10, 0, 255>>,
      <<3, 4, 17, 18, 1, 99>> }

\* Replies of the transport: a body and a two-byte status.
Replies ==
    { b \o <<144, 0>> : b \in Bodies }
    \cup { <<105, 133>>, <<2, 5, 6, 106, 128>>, <<0, 144>>, <<144, 1>>, <<0, 0>> }

SharedReplies == { <<1, 2, 3, 144, 0>>, <<105, 133>> }

LongReplies == { <<7, 8, 144, 0>>, <<105, 133>> }

\* ---------------------------------------------------------------- state

Callers == {"c1", "c2"}
NoCaller == "nobody"
NoLock == "unlocked"
NoResult == [none |-> TRUE]

\* Methods wrapped by transport.decorateAppAPIMethods in the constructor.
DecoratedMethods == {"getVersion", "getAddress"}

VARIABLES
    callers,        \* the callers that use the client: one, or two at once
    transportKind,  \* "queue": a send waits for the exchange under way;
                    \* "atomic": a send during an exchange is rejected
    lock,           \* transport._appAPIlock
    inflight,       \* the caller whose frame the transport is exchanging
    wire,           \* the operations (by number) of the frames sent, in order,
                    \* for the operations whose outcome is not yet taken
    nOps,           \* operations invoked so far
    pc,             \* per caller: "idle", "send", "await", "done", "failed"
    call,           \* per caller: the operation and its arguments
    opId,           \* per caller: the number of its operation
    sd,             \* per caller: the sendToDevice call under way
    frames,         \* per caller: the frames its operation handed over
    reply,          \* per caller: the reply received last
    earlier,        \* per caller: the reply received before that one
    result,         \* per caller: the value the operation resolved with
    error,          \* per caller: the error the operation rejected with
    pathNums,       \* path encoder alone: the list of indices
    encoded         \* path encoder alone: what serializePath returned

vars == << callers, transportKind, lock, inflight, wire, nOps, pc, call, opId,
           sd, frames, reply, earlier, result, error, pathNums, encoded >>

clientVars == << callers, transportKind, lock, inflight, wire, nOps, pc, call,
                 opId, sd, frames, reply, earlier, result, error >>

Workload ==
    IF callers = {"c1"} THEN Invocations
    ELSE IF callers = {"c2"} THEN LongInvocations
    ELSE SharedInvocations
DeviceReplies ==
    IF callers = {"c1"} THEN Replies
    ELSE IF callers = {"c2"} THEN LongReplies
    ELSE SharedReplies

NotEncoded == [ok |-> FALSE, buf |-> <<0>>]

InitClient ==
    /\ transportKind \in {"queue", "atomic"}
    /\ lock = NoLock
    /\ inflight = NoCaller
    /\ wire = << >>
    /\ nOps = 0
    /\ pc = [c \in Callers |-> "idle"]
    /\ call = [c \in Callers |-> NoInvocation]
    /\ opId = [c \in Callers |-> 0]
    /\ sd = [c \in Callers |-> NoSend]
    /\ frames = [c \in Callers |-> << >>]
    /\ reply = [c \in Callers |-> << >>]
    /\ earlier = [c \in Callers |-> << >>]
    /\ result = [c \in Callers |-> NoResult]
    /\ error = [c \in Callers |-> ""]

\* One caller, as the client requires: operations follow one another.
Init ==
    /\ callers = {"c1"}
    /\ InitClient
    /\ pathNums = << >>
    /\ encoded = NotEncoded

\* One caller that signs long transactions.
InitLong ==
    /\ callers = {"c2"}
    /\ InitClient
    /\ pathNums = << >>
    /\ encoded = NotEncoded

\* Two callers that do not wait for one another.
InitShared ==
    /\ callers = Callers
    /\ InitClient
    /\ pathNums = << >>
    /\ encoded = NotEncoded

\* ---------------------------------------------------------------- operations

\* firstSend with p1 kept in the client and counted on from one operation
\* to the next.
firstSend_KeepsP1(inv, pathBuffer) ==
    CASE inv.op = "getVersion" ->
           SendState(INS_GET_VERSION, P1_NON_CONFIRM + nOps, P2_LAST, << >>, "only")
      [] inv.op = "getAddress" ->
           SendState(INS_GET_PUBLIC_KEY,
                     (IF inv.display THEN P1_CONFIRM ELSE P1_NON_CONFIRM) + nOps,
                     P2_LAST, pathBuffer, "only")
      [] inv.op = "signTransaction" ->
           SendState(INS_SIGN_TX, P1_START + nOps, P2_MORE, pathBuffer, "path")

\* firstSend without the display flag: p1 is always P1_NON_CONFIRM.
firstSend_NeverConfirm(inv, pathBuffer) ==
    CASE inv.op = "getVersion" ->
           SendState(INS_GET_VERSION, P1_NON_CONFIRM, P2_LAST, << >>, "only")
      [] inv.op = "getAddress" ->
           SendState(INS_GET_PUBLIC_KEY, P1_NON_CONFIRM, P2_LAST, pathBuffer, "only")
      [] inv.op = "signTransaction" ->
           SendState(INS_SIGN_TX, P1_START, P2_MORE, pathBuffer, "path")

\* The first sendToDevice call of each operation (lines 66-71, 96-101, 141).
firstSend(inv, pathBuffer) ==
    CASE inv.op = "getVersion" ->
           SendState(INS_GET_VERSION, P1_NON_CONFIRM, P2_LAST, << >>, "only")
      [] inv.op = "getAddress" ->
           SendState(INS_GET_PUBLIC_KEY,
                     IF inv.display THEN P1_CONFIRM ELSE P1_NON_CONFIRM,
                     P2_LAST, pathBuffer, "only")
      [] inv.op = "signTransaction" ->
           SendState(INS_SIGN_TX, P1_START, P2_MORE, pathBuffer, "path")

\* secondSend with the transaction frames numbered from P1_START.
secondSend_FromZero(inv) == SendState(INS_SIGN_TX, P1_START, P2_LAST, inv.tx, "tx")

\* The second sendToDevice call of signTransaction (lines 142-147).
secondSend(inv) == SendState(INS_SIGN_TX, 1, P2_LAST, inv.tx, "tx")

\* What an operation resolves with, given the body its last sendToDevice
\* call returned.
resultOf(inv, responseBuffer) ==
    CASE inv.op = "getVersion" -> versionOf(responseBuffer)
      [] inv.op = "getAddress" -> addressDataOf(responseBuffer)
      [] inv.op = "signTransaction" -> signatureOf(responseBuffer)

\* The finally clause of a decorated method clears the lock.
lockAfter(inv) == IF inv.op \in DecoratedMethods THEN NoLock ELSE lock

\* A caller invokes an operation: the code up to its first transport.send.
\* A decorated method is rejected while the lock is held and takes the lock
\* otherwise; getAddress and signTransaction encode the path, which may throw.
Invoke(c) ==
    /\ c \in callers
    /\ pc[c] = "idle"
    /\ nOps < MaxOps
    /\ \E inv \in Workload :
         LET locked == inv.op \in DecoratedMethods /\ lock # NoLock
             encodedPath == IF inv.op = "getVersion" THEN [ok |-> TRUE, buf |-> << >>]
                            ELSE pathToBuffer(inv.path)
         IN  /\ nOps' = nOps + 1
             /\ opId' = [opId EXCEPT ![c] = nOps + 1]
             /\ call' = [call EXCEPT ![c] = inv]
             /\ IF locked
                THEN /\ pc' = [pc EXCEPT ![c] = "failed"]
                     /\ error' = [error EXCEPT ![c] = "TransportLocked"]
                     /\ UNCHANGED << lock, sd >>
                ELSE IF ~encodedPath.ok
                THEN /\ pc' = [pc EXCEPT ![c] = "failed"]
                     /\ error' = [error EXCEPT ![c] = "InvalidPath"]
                     /\ lock' = lockAfter(inv)
                     /\ UNCHANGED sd
                ELSE /\ pc' = [pc EXCEPT ![c] = "send"]
                     /\ sd' = [sd EXCEPT ![c] = firstSend(inv, encodedPath.buf)]
                     /\ lock' = IF inv.op \in DecoratedMethods THEN inv.op ELSE lock
                     /\ UNCHANGED error
    /\ UNCHANGED << callers, transportKind, inflight, wire, frames, reply, earlier,
                    result, pathNums, encoded >>

\* transport.send: the caller's next frame goes to the device.  While another
\* exchange is under way a queueing transport makes the frame wait, and an
\* atomic one rejects the send, which ends the operation.
SendFrame(c) ==
    /\ pc[c] = "send"
    /\ IF inflight = NoCaller
       THEN /\ frames' = [frames EXCEPT ![c] = Append(@, nextFrame(sd[c]))]
            /\ sd' = [sd EXCEPT ![c] = afterFrame(@)]
            /\ wire' = Append(wire, opId[c])
            /\ inflight' = c
            /\ pc' = [pc EXCEPT ![c] = "await"]
            /\ UNCHANGED << lock, error >>
       ELSE /\ transportKind = "atomic"
            /\ pc' = [pc EXCEPT ![c] = "failed"]
            /\ error' = [error EXCEPT ![c] = "TransportRaceCondition"]
            /\ lock' = lockAfter(call[c])
            /\ UNCHANGED << frames, sd, wire, inflight >>
    /\ UNCHANGED << callers, transportKind, nOps, call, opId, reply, earlier,
                    result, pathNums, encoded >>

\* The reply to the frame under way arrives and the operation runs up to its
\* next transport.send, its return or its throw.
Receive(c) ==
    /\ pc[c] = "await"
    /\ inflight = c
    /\ \E r \in DeviceReplies :
         /\ reply' = [reply EXCEPT ![c] = r]
         /\ earlier' = [earlier EXCEPT ![c] = reply[c]]
         /\ inflight' = NoCaller
         /\ frames' = [frames EXCEPT ![c][Len(frames[c])].status =
                                      readUInt16BE(r, Len(r) - 2)]
         /\ IF throwOnFailure(r)
            THEN /\ pc' = [pc EXCEPT ![c] = "failed"]
                 /\ error' = [error EXCEPT ![c] = "StatusError"]
                 /\ lock' = lockAfter(call[c])
                 /\ UNCHANGED << sd, result >>
            ELSE IF ~sd[c].final
            THEN /\ pc' = [pc EXCEPT ![c] = "send"]
                 /\ UNCHANGED << sd, result, error, lock >>
            ELSE IF sd[c].phase = "path"
            THEN /\ pc' = [pc EXCEPT ![c] = "send"]
                 /\ sd' = [sd EXCEPT ![c] = [secondSend(call[c]) EXCEPT
                                             !.firstFrame = Len(frames[c]) + 1]]
                 /\ UNCHANGED << result, error, lock >>
            ELSE /\ pc' = [pc EXCEPT ![c] = "done"]
                 /\ result' = [result EXCEPT ![c] = resultOf(call[c], replyBody(r))]
                 /\ lock' = lockAfter(call[c])
                 /\ UNCHANGED << sd, error >>
    /\ UNCHANGED << callers, transportKind, wire, nOps, call, opId, pathNums, encoded >>

\* The caller takes the outcome; nothing of the operation is kept, and its
\* frames leave the record of the wire.
Return(c) ==
    /\ pc[c] \in {"done", "failed"}
    /\ pc' = [pc EXCEPT ![c] = "idle"]
    /\ call' = [call EXCEPT ![c] = NoInvocation]
    /\ opId' = [opId EXCEPT ![c] = 0]
    /\ sd' = [sd EXCEPT ![c] = NoSend]
    /\ frames' = [frames EXCEPT ![c] = << >>]
    /\ reply' = [reply EXCEPT ![c] = << >>]
    /\ earlier' = [earlier EXCEPT ![c] = << >>]
    /\ result' = [result EXCEPT ![c] = NoResult]
    /\ error' = [error EXCEPT ![c] = ""]
    /\ wire' = SelectSeq(wire, LAMBDA o : o # opId[c])
    /\ UNCHANGED << callers, transportKind, lock, inflight, nOps, pathNums, encoded >>

Next == \E c \in Callers : Invoke(c) \/ SendFrame(c) \/ Receive(c) \/ Return(c)

Spec == Init /\ [][Next]_vars

SpecShared == InitShared /\ [][Next]_vars

SpecLong == InitLong /\ [][Next]_vars

\* The single caller's specification with the client running on to its next
\* transport.send whenever it can, and the transport answering every frame.
SpecLive ==
    Spec /\ \A c \in Callers : WF_vars(SendFrame(c)) /\ WF_vars(Receive(c))

\* ---------------------------------------------------------------- path encoder alone

\* Unsigned 32-bit values with every byte position exercised.
IndexValues ==
    { U32(0, 0), U32(0, 1), U32(1, 0), U32(1, 2147483647), U32(0, 16909060) }

RECURSIVE ListsUpTo(_)
ListsUpTo(n) ==
    IF n = 0 THEN { << >> }
    ELSE ListsUpTo(n - 1) \cup
         { Append(l, v) : l \in { m \in ListsUpTo(n - 1) : Len(m) = n - 1 },
                          v \in IndexValues }

\* A list of k indices, every second one with bit 31 set.
LongList(k) == [i \in 1..k |-> U32(i % 2, 16909060 + i)]

PathLists == ListsUpTo(MaxEnumPath) \cup { LongList(k) : k \in {63, 64, 255, 256} }

\* What an external consumer reads back from an encoded path.
DecodePath(buf) ==
    [i \in 1..buf[1] |->
        U32(buf[4 * i - 2] \div 128,
            (buf[4 * i - 2] % 128) * 16777216 + buf[4 * i - 1] * 65536
              + buf[4 * i] * 256 + buf[4 * i + 1])]

InitPath ==
    /\ callers = {}
    /\ InitClient
    /\ pathNums \in PathLists
    /\ encoded = NotEncoded

\* serializePath(pathNums)
Serialize ==
    /\ encoded = NotEncoded
    /\ encoded' = serializePath(pathNums)
    /\ UNCHANGED << clientVars, pathNums >>

NextPath == Serialize

SpecPath == InitPath /\ [][NextPath]_vars

\* ---------------------------------------------------------------- properties

Running(c) == pc[c] \in {"send", "await"}

\* ceil(n / MAX_APDU_LEN)
CeilFrames(n) == (n + MAX_APDU_LEN - 1) \div MAX_APDU_LEN

\* The frames of the sendToDevice call caller c has under way.
FramesOfSend(c) ==
    IF Len(frames[c]) < sd[c].firstFrame THEN << >>
    ELSE SubSeq(frames[c], sd[c].firstFrame, Len(frames[c]))

\* The number of indices of a path: its components other than the root.
PathElements(path) == Len(SelectSeq(path, IsNotRoot))

\* C1: the status of every reply is checked: a further frame is handed to the
\* transport only after a reply with status 0x9000, and a reply with any
\* other status ends the operation at once, failed and without a result.
C1_StatusCheckedOnEveryFrame ==
    \A c \in Callers :
      /\ \A k \in 1..Len(frames[c]) :
           /\ k < Len(frames[c]) => frames[c][k].status = StatusCodes_OK
           /\ frames[c][k].status \notin {NoStatus, StatusCodes_OK} =>
                /\ k = Len(frames[c])
                /\ pc[c] = "failed"
                /\ result[c] = NoResult
      /\ pc[c] = "done" =>
           \A k \in 1..Len(frames[c]) : frames[c][k].status = StatusCodes_OK
      /\ pc[c] = "failed" => result[c] = NoResult

\* C1 witness: signTransaction of 600 bytes whose second frame was answered
\* with status 0x6985: it failed with two frames sent of four.
C1_Witness ==
    \E c \in Callers :
      /\ call[c].op = "signTransaction"
      /\ Len(call[c].tx) = 600
      /\ pc[c] = "failed"
      /\ Len(frames[c]) = 2
      /\ frames[c][1].status = StatusCodes_OK
      /\ frames[c][2].status = 27013

\* C2: once the last frame of a send with p2 = LAST is handed over, a payload
\* of n bytes has gone out in ceil(n/255) frames (one empty frame for n = 0),
\* each of at most 255 bytes, the final one with p2 = 0x00 and every earlier
\* one with p2 = 0x80.
C2_FrameCountAndMarkers ==
    \A c \in Callers :
      (sd[c].phase # "none" /\ sd[c].p2 = P2_LAST /\ sd[c].final) =>
        LET fs == FramesOfSend(c)
            n == Len(sd[c].payload)
        IN  /\ Len(fs) = IF n = 0 THEN 1 ELSE CeilFrames(n)
            /\ n = 0 => fs[1].data = << >>
            /\ \A k \in 1..Len(fs) :
                 /\ Len(fs[k].data) <= MAX_APDU_LEN
                 /\ fs[k].p2 = IF k = Len(fs) THEN P2_LAST ELSE P2_MORE

\* C2 witness: a 600-byte payload sent with p2 = LAST in three frames.
C2_Witness ==
    \E c \in Callers :
      /\ sd[c].p2 = P2_LAST
      /\ sd[c].final
      /\ Len(sd[c].payload) = 600
      /\ Len(FramesOfSend(c)) = 3

\* C3: a signTransaction that succeeded, with a path encoded in at most 255
\* bytes and a transaction of n bytes, made 1 + ceil(max(n,1)/255) exchanges
\* and its signature is read from the body of the last reply.
C3_SignExchangesAndSignature ==
    \A c \in Callers :
      (call[c].op = "signTransaction" /\ pc[c] = "done"
         /\ Len(pathToBuffer(call[c].path).buf) <= MAX_APDU_LEN) =>
        LET n == Len(call[c].tx)
        IN  /\ Len(frames[c]) = 1 + CeilFrames(IF n > 1 THEN n ELSE 1)
            /\ result[c] = signatureOf(replyBody(reply[c]))

\* C3 witness: 600 bytes signed in four exchanges, the signature 05 06 taken
\* from the last reply 02 05 06, the third reply 01 02 03 left unused.
C3_Witness ==
    \E c \in Callers :
      /\ call[c].op = "signTransaction"
      /\ pc[c] = "done"
      /\ Len(call[c].tx) = 600
      /\ Len(frames[c]) = 4
      /\ earlier[c] = <<1, 2, 3, 144, 0>>
      /\ reply[c] = <<2, 5, 6, 144, 0>>
      /\ result[c] = [signature |-> <<5, 6>>]

\* C4: the exchanges of two operations are never interleaved: no frame of
\* one operation goes out between two frames of another.
C4_NoInterleaving ==
    \A i, j, k \in 1..Len(wire) :
      (i < j /\ j < k /\ wire[i] = wire[k]) => wire[j] = wire[i]

\* The body of the reply caller c received last.
LastBody(c) == replyBody(reply[c])

\* A body laid out as [L1, L1-1 key bytes, L2, L2 chain bytes].
IsKeyThenChain(b) ==
    /\ Len(b) >= 1
    /\ b[1] >= 1
    /\ Len(b) >= b[1] + 1
    /\ Len(b) = b[1] + 1 + b[b[1] + 1]

\* A body laid out as [L1, one leading byte, L1-1 key bytes, L2, L2 chain
\* bytes]: the key field of L1 bytes holds a leading byte and the key.
IsFieldThenChain(b) ==
    /\ Len(b) >= 1
    /\ b[1] >= 1
    /\ Len(b) >= b[1] + 2
    /\ Len(b) = b[1] + 2 + b[b[1] + 2]

\* C5 as claimed: for a body [L1, L1-1 key bytes, L2, L2 chain bytes]
\* getAddress returns those key bytes, those chain bytes, and the hash of the
\* key bytes followed by a zero byte.
C5_AddressFromKeyThenChain ==
    \A c \in Callers :
      (call[c].op = "getAddress" /\ pc[c] = "done" /\ IsKeyThenChain(LastBody(c))) =>
        LET b == LastBody(c)
            key == SubSeq(b, 2, b[1])
            chain == SubSeq(b, b[1] + 2, Len(b))
        IN  /\ result[c].publicKey = key
            /\ result[c].chainCode = chain
            /\ result[c].address.hex = sha3Hash(key \o <<0>>)

\* C5 amended: for a body [L1, one leading byte, L1-1 key bytes, L2, L2 chain
\* bytes] getAddress returns those L1-1 key bytes, those L2 chain bytes, and
\* as address "0x" and the hash of the key bytes followed by a zero byte.
C5_AddressFromFieldThenChain ==
    \A c \in Callers :
      (call[c].op = "getAddress" /\ pc[c] = "done" /\ IsFieldThenChain(LastBody(c))) =>
        LET b == LastBody(c)
            key == SubSeq(b, 3, b[1] + 1)
            chain == SubSeq(b, b[1] + 3, Len(b))
        IN  /\ Len(key) = b[1] - 1
            /\ Len(chain) = b[b[1] + 2]
            /\ result[c].publicKey = key
            /\ result[c].chainCode = chain
            /\ result[c].address = [prefix |-> "0x", hex |-> sha3Hash(key \o <<0>>)]

\* C5 witness: the body 03 04 11 12 02 21 22 gave the key 11 12 and the
\* chain code 21 22.
C5_Witness ==
    \E c \in Callers :
      /\ call[c].op = "getAddress"
      /\ pc[c] = "done"
      /\ LastBody(c) = <<3, 4, 17, 18, 2, 33, 34>>
      /\ result[c].publicKey = <<17, 18>>
      /\ result[c].chainCode = <<33, 34>>

\* C6: getAddress returns a result only when the declared lengths fit the
\* body: the public key has the declared L1-1 bytes and the chain code the
\* declared L2 bytes; otherwise it fails.
C6_AddressLengthsChecked ==
    \A c \in Callers :
      (call[c].op = "getAddress" /\ pc[c] = "done") =>
        LET b == LastBody(c)
        IN  /\ Len(b) >= 1
            /\ Len(result[c].publicKey) = (IF b[1] >= 1 THEN b[1] - 1 ELSE 0)
            /\ Len(b) >= b[1] + 2
            /\ Len(result[c].chainCode) = b[b[1] + 2]

\* C7: signTransaction returns a result only when the signature length in
\* byte 0 of the final body fits the body: the signature has the declared
\* number of bytes; otherwise (an empty body included) it fails.
C7_SignatureLengthChecked ==
    \A c \in Callers :
      (call[c].op = "signTransaction" /\ pc[c] = "done") =>
        LET b == LastBody(c)
        IN  /\ Len(b) >= 1
            /\ Len(result[c].signature) = b[1]

\* The one frame C8 describes for a getAddress call.
AddressFrame(inv) ==
    [cla |-> LEDGER_CLA, ins |-> INS_GET_PUBLIC_KEY,
     p1 |-> IF inv.display THEN P1_CONFIRM ELSE P1_NON_CONFIRM,
     p2 |-> P2_LAST, data |-> pathToBuffer(inv.path).buf]

SameFrame(f, g) ==
    /\ f.cla = g.cla /\ f.ins = g.ins /\ f.p1 = g.p1 /\ f.p2 = g.p2
    /\ f.data = g.data

\* getAddress of caller c sends one frame only, the frame C8 describes.
OneAddressFrame(c) ==
    /\ Len(frames[c]) <= 1
    /\ pc[c] \in {"await", "done"} => Len(frames[c]) = 1
    /\ Len(frames[c]) >= 1 => SameFrame(frames[c][1], AddressFrame(call[c]))

\* C8 as claimed: for a path of 0 to 255 elements getAddress makes exactly
\* one exchange, of a frame with instruction 0x05, p1 by display, p2 = 0x00
\* and the whole encoded path as payload.
C8_OneFrameUpTo255 ==
    \A c \in Callers :
      (call[c].op = "getAddress" /\ PathElements(call[c].path) <= 255) =>
        OneAddressFrame(c)

\* C8 amended: the same for a path of at most 63 elements, those whose
\* encoding of 1 + 4 * elements bytes fits in one frame of 255 bytes.
C8_OneFrameUpTo63 ==
    \A c \in Callers :
      (call[c].op = "getAddress" /\ PathElements(call[c].path) <= 63) =>
        OneAddressFrame(c)

\* C8 witness: getAddress with display on a path of 63 elements, done after
\* one frame of 253 bytes with p1 = 0x01.
C8_Witness ==
    \E c \in Callers :
      /\ call[c].op = "getAddress"
      /\ call[c].display
      /\ PathElements(call[c].path) = 63
      /\ pc[c] = "done"
      /\ Len(frames[c]) = 1
      /\ frames[c][1].p1 = P1_CONFIRM
      /\ Len(frames[c][1].data) = 253

\* The buffer encodes, in order, the index of every component of the path
\* other than the root, each with bit 31 set.
EncodesHardened(buf, path) ==
    LET kept == SelectSeq(path, IsNotRoot)
    IN  /\ Len(buf) = 1 + 4 * Len(kept)
        /\ buf[1] = Len(kept)
        /\ \A i \in 1..Len(kept) :
             /\ buf[4 * i - 2] >= 128
             /\ DecodePath(buf)[i] = U32(1, kept[i].n.lo)

\* C9: the path payload getAddress and signTransaction hand to sendToDevice,
\* and the frame that carries it, hold every index hardened, the root
\* component left out and the order of the others kept.
C9_EveryIndexHardened ==
    \A c \in Callers :
      /\ (Running(c) \/ pc[c] = "done") /\ sd[c].phase = "path" =>
           EncodesHardened(sd[c].payload, call[c].path)
      /\ (Running(c) \/ pc[c] = "done") /\ call[c].op = "getAddress" =>
           EncodesHardened(sd[c].payload, call[c].path)
      /\ (call[c].op \in {"getAddress", "signTransaction"}
            /\ Len(frames[c]) >= 1 /\ PathElements(call[c].path) <= 63) =>
           EncodesHardened(frames[c][1].data, call[c].path)

\* C9 witness: the path m/44'/637/1h, whose second index has no suffix, sent
\* by signTransaction in its first frame.
C9_Witness ==
    \E c \in Callers :
      /\ call[c].op = "signTransaction"
      /\ call[c].path = PathShort
      /\ Len(frames[c]) >= 1
      /\ frames[c][1].data = <<3, 128, 0, 0, 44, 128, 0, 2, 125, 128, 0, 0, 1>>

\* C10: for a list of 0 to 255 indices serializePath returns 1 + 4 * length
\* bytes, byte 0 the length and each index as 4 bytes most significant
\* first, in order: decoding gives the list back.
C10_PathEncodingRoundTrip ==
    (encoded # NotEncoded /\ Len(pathNums) <= 255) =>
      /\ encoded.ok
      /\ Len(encoded.buf) = 1 + 4 * Len(pathNums)
      /\ encoded.buf[1] = Len(pathNums)
      /\ DecodePath(encoded.buf) = pathNums
      /\ \A i \in 1..Len(pathNums) :
           encoded.buf[4 * i - 2] = pathNums[i].hi * 128 + (pathNums[i].lo \div 16777216)

\* C10 witness: the single index 0x01020304 encoded as 01 01 02 03 04, and
\* a list of 255 indices encoded in 1021 bytes.
C10_Witness ==
    /\ encoded.ok
    /\ \/ pathNums = << U32(0, 16909060) >> /\ encoded.buf = <<1, 1, 2, 3, 4>>
       \/ Len(pathNums) = 255 /\ Len(encoded.buf) = 1021


\* The one frame C11 describes for getVersion.
VersionFrame ==
    [cla |-> LEDGER_CLA, ins |-> INS_GET_VERSION, p1 |-> P1_NON_CONFIRM,
     p2 |-> P2_LAST, data |-> << >>]

\* C11: getVersion makes exactly one exchange, of a frame with instruction
\* 0x03, p1 = 0x00, p2 = 0x00 and no payload, and for a body [major, minor,
\* patch] it returns the text "major.minor.patch", the fields in that order.
C11_VersionOneFrameAndText ==
    \A c \in Callers :
      call[c].op = "getVersion" =>
        /\ Len(frames[c]) <= 1
        /\ pc[c] \in {"await", "done"} => Len(frames[c]) = 1
        /\ Len(frames[c]) >= 1 => SameFrame(frames[c][1], VersionFrame)
        /\ (pc[c] = "done" /\ Len(LastBody(c)) = 3) =>
             LET b == LastBody(c)
             IN  result[c] = [version |-> Decimal(b[1]) \o <<".">> \o Decimal(b[2])
                                            \o <<".">> \o Decimal(b[3])]

\* C11 witness: the body 01 02 03 gave "1.2.3", after one frame.
C11_Witness ==
    \E c \in Callers :
      /\ call[c].op = "getVersion"
      /\ pc[c] = "done"
      /\ Len(frames[c]) = 1
      /\ LastBody(c) = <<1, 2, 3>>
      /\ result[c] = [version |-> <<"1", ".", "2", ".", "3">>]


\* The state of the signTransaction of caller c, in the terms of the state
\* machine IDLE -> PATH_SENT -> TX_CHUNK (repeated) -> TX_SENT: PATH_SENT
\* from the moment the path is ready to be sent until its reply is accepted.
SignState(c) ==
    CASE sd[c].phase = "path" -> "PATH_SENT"
      [] sd[c].phase = "tx" /\ ~sd[c].final -> "TX_CHUNK"
      [] sd[c].phase = "tx" /\ sd[c].final -> "TX_SENT"
      [] OTHER -> "IDLE"

\* The frames of the signTransaction of caller c are the path frame (p1 =
\* 0x00, p2 = 0x80, the whole encoded path), answered with success before
\* anything else is sent, then the transaction in chunks of 255 bytes in
\* order, p1 = 1, 2, 3, ..., p2 = 0x80 except on the final one; and the
\* state follows the number of frames sent.
SignFramesInOrder(c) ==
    LET n == Len(call[c].tx)
        fs == frames[c]
    IN  /\ \A k \in 1..Len(fs) :
             /\ fs[k].ins = INS_SIGN_TX
             /\ k = 1 =>
                  /\ fs[k].p1 = P1_START
                  /\ fs[k].p2 = P2_MORE
                  /\ fs[k].data = pathToBuffer(call[c].path).buf
             /\ k >= 2 =>
                  /\ fs[1].status = StatusCodes_OK
                  /\ fs[k].p1 = k - 1
                  /\ fs[k].data = subarray(call[c].tx, MAX_APDU_LEN * (k - 2),
                                           MAX_APDU_LEN * (k - 1))
                  /\ fs[k].p2 = IF MAX_APDU_LEN * (k - 1) >= n THEN P2_LAST ELSE P2_MORE
        /\ SignState(c) = "IDLE" => Len(fs) = 0 \/ pc[c] = "failed"
        /\ SignState(c) = "PATH_SENT" => Len(fs) <= 1
        /\ SignState(c) = "TX_CHUNK" =>
             /\ Len(fs) >= 1
             /\ \A k \in 1..Len(fs) : fs[k].p2 = P2_MORE
        /\ SignState(c) = "TX_SENT" =>
             /\ Len(fs) = 1 + (IF n = 0 THEN 1 ELSE CeilFrames(n))
             /\ fs[Len(fs)].p2 = P2_LAST

\* C12 as claimed: every signTransaction sends its frames in that order.
C12_SignOrderAnyPath ==
    \A c \in Callers :
      (call[c].op = "signTransaction" /\ PathElements(call[c].path) <= 255) =>
        SignFramesInOrder(c)

\* C12 amended: a signTransaction whose path has at most 63 elements, so
\* that its encoding fits in one frame, sends its frames in that order.
C12_SignOrderShortPath ==
    \A c \in Callers :
      (call[c].op = "signTransaction" /\ PathElements(call[c].path) <= 63) =>
        SignFramesInOrder(c)

\* C12 witness: 600 bytes signed: the path frame with p1 = 0x00, then three
\* transaction frames with p1 = 1, 2, 3, the last of 90 bytes with p2 = 0x00.
C12_Witness ==
    \E c \in Callers :
      /\ call[c].op = "signTransaction"
      /\ Len(call[c].tx) = 600
      /\ SignState(c) = "TX_SENT"
      /\ Len(frames[c]) = 4
      /\ frames[c][1].p1 = 0 /\ frames[c][1].p2 = 128
      /\ frames[c][2].p1 = 1 /\ frames[c][2].p2 = 128
      /\ frames[c][3].p1 = 2 /\ frames[c][3].p2 = 128
      /\ frames[c][4].p1 = 3 /\ frames[c][4].p2 = 0
      /\ Len(frames[c][4].data) = 90


\* C13: within an operation at most one frame awaits its reply, the one sent
\* last, and only while the operation waits; every frame before it was
\* answered with status 0x9000 before the next was handed to the transport.
C13_OneFrameInFlight ==
    \A c \in Callers :
      /\ \A k \in 1..Len(frames[c]) :
           /\ k < Len(frames[c]) => frames[c][k].status = StatusCodes_OK
           /\ frames[c][k].status = NoStatus => (k = Len(frames[c]) /\ pc[c] = "await")
      /\ pc[c] = "await" =>
           /\ Len(frames[c]) >= 1
           /\ frames[c][Len(frames[c])].status = NoStatus
           /\ inflight = c
      /\ pc[c] = "send" /\ Len(frames[c]) >= 1 =>
           frames[c][Len(frames[c])].status = StatusCodes_OK

\* C13 witness: the third frame of an operation awaits its reply, the two
\* before it answered with success.
C13_Witness ==
    \E c \in Callers :
      /\ pc[c] = "await"
      /\ Len(frames[c]) = 3
      /\ frames[c][1].status = StatusCodes_OK
      /\ frames[c][2].status = StatusCodes_OK
      /\ frames[c][3].status = NoStatus


\* C14: of a reply of k >= 2 bytes the status is the last two bytes read
\* most significant first, the reply is accepted only when these are 90 00
\* and it raises an error for every other value, and the body the operation
\* reads is the first k-2 bytes.
C14_BodyAndStatusSplit ==
    \A c \in Callers :
      reply[c] # << >> =>
        LET k == Len(reply[c])
            status == reply[c][k - 1] * 256 + reply[c][k]
            answered == IF pc[c] = "await" THEN Len(frames[c]) - 1 ELSE Len(frames[c])
        IN  /\ k >= 2
            /\ error[c] = "StatusError" <=> ~(reply[c][k - 1] = 144 /\ reply[c][k] = 0)
            /\ error[c] = "StatusError" => (pc[c] = "failed" /\ result[c] = NoResult)
            /\ frames[c][answered].status = status
            /\ pc[c] = "done" =>
                 result[c] = resultOf(call[c], SubSeq(reply[c], 1, k - 2))

\* C14 witness: the reply 03 05 90 00 was accepted and signTransaction read
\* the body 03 05; or the reply 00 90, status 0x0090, raised an error.
C14_Witness ==
    \E c \in Callers :
      \/ /\ call[c].op = "signTransaction"
         /\ pc[c] = "done"
         /\ reply[c] = <<3, 5, 144, 0>>
         /\ result[c] = [signature |-> <<5>>]
      \/ /\ reply[c] = <<0, 144>>
         /\ pc[c] = "failed"
         /\ error[c] = "StatusError"


\* C15: the address getAddress returns depends on the returned public key
\* alone: any successful response that gives the same public key, whatever
\* its chain code, gives the same address.
C15_AddressFromKeyOnly ==
    \A c \in Callers :
      (call[c].op = "getAddress" /\ pc[c] = "done") =>
        \A b \in Bodies :
          addressDataOf(b).publicKey = result[c].publicKey =>
            addressDataOf(b).address = result[c].address

\* C15 witness: getAddress done on a response with the key 11 12, while
\* another response gives the same key and a different chain code.
C15_Witness ==
    \E c \in Callers :
      /\ call[c].op = "getAddress"
      /\ pc[c] = "done"
      /\ result[c].publicKey = <<17, 18>>
      /\ \E b \in Bodies :
           /\ addressDataOf(b).publicKey = result[c].publicKey
           /\ addressDataOf(b).chainCode # result[c].chainCode


\* The frames of one sendToDevice call, from its arguments alone.
ChunksOf(instruction, p1, p2, payload) ==
    LET n == Len(payload)
        count == IF n = 0 THEN 1 ELSE CeilFrames(n)
    IN  [k \in 1..count |->
           [cla |-> LEDGER_CLA, ins |-> instruction, p1 |-> p1 + k - 1,
            p2 |-> IF k = count THEN p2 ELSE P2_MORE,
            data |-> subarray(payload, MAX_APDU_LEN * (k - 1), MAX_APDU_LEN * k)]]

\* The frames of an operation that meets no failure, from its arguments
\* alone.
ExpectedFrames(inv) ==
    CASE inv.op = "getVersion" ->
           ChunksOf(INS_GET_VERSION, P1_NON_CONFIRM, P2_LAST, << >>)
      [] inv.op = "getAddress" ->
           ChunksOf(INS_GET_PUBLIC_KEY,
                    IF inv.display THEN P1_CONFIRM ELSE P1_NON_CONFIRM,
                    P2_LAST, pathToBuffer(inv.path).buf)
      [] inv.op = "signTransaction" ->
           ChunksOf(INS_SIGN_TX, P1_START, P2_MORE, pathToBuffer(inv.path).buf)
             \o ChunksOf(INS_SIGN_TX, 1, P2_LAST, inv.tx)
      [] OTHER -> << >>

\* C16: whatever operations came before or run alongside, completed or
\* failed, the frames of an operation are those its own arguments give, and
\* once no operation is running the transport's lock is as it was found.
C16_FramesFromArgumentsOnly ==
    /\ \A c \in Callers :
         /\ Len(frames[c]) <= Len(ExpectedFrames(call[c]))
         /\ \A k \in 1..Len(frames[c]) :
              SameFrame(frames[c][k], ExpectedFrames(call[c])[k])
         /\ pc[c] = "done" => Len(frames[c]) = Len(ExpectedFrames(call[c]))
    /\ (\A c \in Callers : ~Running(c)) => lock = NoLock

\* C16 witness: a signTransaction aborted by the reply to its second frame,
\* and a getAddress invoked after it whose frame went out after both frames
\* of the signTransaction and is the frame its arguments give.
C16_Witness ==
    \E c, d \in Callers :
      /\ call[c].op = "signTransaction"
      /\ pc[c] = "failed"
      /\ Len(frames[c]) = 2
      /\ call[d].op = "getAddress"
      /\ opId[d] > opId[c]
      /\ wire = << opId[c], opId[c], opId[d] >>
      /\ SameFrame(frames[d][1], AddressFrame(call[d]))


\* Send state s after i more iterations of the chunk loop (lines 164-182).
loopState(s, i) ==
    [s EXCEPT !.payloadOffset = @ + MAX_APDU_LEN * i, !.p1 = @ + i]

\* The p1 values of the frames sendToDevice hands to the transport from send
\* state s on, every reply being accepted: one per iteration the loop
\* condition admits, and the one of the frame after the loop.
p1Values(s) ==
    { nextFrame(loopState(s, i)).p1 :
        i \in { i \in 0..(Len(s.payload) \div MAX_APDU_LEN) :
                  \A j \in 0..(i - 1) : moreChunks(loopState(s, j)) } }

\* The p1 values a running operation goes on to hand to the transport: those
\* of its current send and, for a signTransaction still sending the path,
\* those of the send of the transaction that follows.
p1ToCome(c) ==
    p1Values(sd[c])
      \cup (IF sd[c].phase = "path" THEN p1Values(secondSend(call[c])) ELSE {})

\* C17: every p1 handed to the transport, and every p1 a running operation
\* goes on to hand to it when the replies are accepted, is in 0..255.
C17_P1FitsOneByte ==
    \A c \in Callers :
      /\ \A k \in 1..Len(frames[c]) : frames[c][k].p1 \in 0..255
      /\ Running(c) => \A p \in p1ToCome(c) : p \in 0..255


\* The payloads of a sequence of frames, one after the other.
RECURSIVE Joined(_)
Joined(fs) == IF fs = << >> THEN << >> ELSE Head(fs).data \o Joined(Tail(fs))

\* The frames of a signTransaction's first sendToDevice call, once its second
\* one is under way.
FramesOfPathSend(c) ==
    IF sd[c].phase = "tx" THEN SubSeq(frames[c], 1, sd[c].firstFrame - 1) ELSE << >>

\* C18: the payloads of the frames sent for one payload, in send order, are
\* the payload's bytes from the first on with none left out or repeated; when
\* every reply was accepted they are the whole payload; and only the last
\* frame carries fewer than 255 bytes.
C18_FramesJoinToPayload ==
    \A c \in Callers :
      call[c].op # "none" /\ sd[c] # NoSend =>
        LET fs == FramesOfSend(c)
            sent == Joined(fs)
        IN  /\ sent = subarray(sd[c].payload, 0, Len(sent))
            /\ \A k \in 1..(Len(fs) - 1) : Len(fs[k].data) = MAX_APDU_LEN
            /\ pc[c] = "done" => sent = sd[c].payload
            /\ sd[c].phase = "tx" =>
                 /\ Joined(FramesOfPathSend(c)) = pathToBuffer(call[c].path).buf
                 /\ sd[c].payload = call[c].tx
                 /\ \A k \in 1..(sd[c].firstFrame - 2) :
                      Len(frames[c][k].data) = MAX_APDU_LEN

\* C18 witness: a signTransaction that has completed for a 600-byte
\* transaction sent in frames of 255, 255 and 90 bytes.
C18_Witness ==
    \E c \in Callers :
      /\ call[c].op = "signTransaction"
      /\ pc[c] = "done"
      /\ Len(call[c].tx) = 600
      /\ Len(FramesOfSend(c)) = 3
      /\ Len(FramesOfSend(c)[3].data) = 90
      /\ Joined(FramesOfSend(c)) = call[c].tx


\* An operation that has returned or thrown.
Ended(c) == pc[c] \in {"done", "failed"}

\* A step that hands a frame of caller c to the transport.
SendsFrame(c) == Len(frames'[c]) = Len(frames[c]) + 1

\* Every frame sent inside the chunk loop advances payloadOffset by exactly
\* 255 and leaves fewer bytes to send.
LoopAdvances ==
    \A c \in Callers :
      (SendsFrame(c) /\ moreChunks(sd[c])) =>
        /\ sd'[c].payloadOffset = sd[c].payloadOffset + MAX_APDU_LEN
        /\ sd'[c].payloadOffset <= Len(sd[c].payload)
        /\ sd'[c].payload = sd[c].payload

\* No step of an operation that has returned or thrown sends a frame.
NoFrameAfterEnd ==
    \A c \in Callers :
      Ended(c) =>
        /\ ~SendsFrame(c)
        /\ Len(SelectSeq(wire', LAMBDA o : o = opId[c]))
             <= Len(SelectSeq(wire, LAMBDA o : o = opId[c]))

\* C19: with every frame answered, every running operation returns or
\* throws; each loop frame advances the payload offset by 255; and an
\* operation that has returned or thrown sends no further frame.
C19_EveryOperationTerminates ==
    /\ \A c \in Callers : Running(c) ~> Ended(c)
    /\ [][LoopAdvances]_vars
    /\ [][NoFrameAfterEnd]_vars

\* C19 witness: a getAddress for a path of 255 indices, 1021 bytes of
\* payload, has returned after five frames, four of them sent in the loop.
C19_Witness ==
    \E c \in Callers :
      /\ call[c].op = "getAddress"
      /\ PathElements(call[c].path) = 255
      /\ pc[c] = "done"
      /\ Len(frames[c]) = 5
      /\ sd[c].payloadOffset = 4 * MAX_APDU_LEN

====
